---- MODULE Spec2Model ----
(***************************************************************************)
(* Course-scheduling model builder and two-stage lexicographic scheduler. *)
(*                                                                         *)
(*   src/src/model/model_geneds.rs        add_gened_constraints            *)
(*   src/src/model/two_stage_schedule.rs  two_stage_lex_schedule           *)
(*                                                                         *)
(* A constraint model is data: a list of boolean auxiliary variables and a *)
(* list of linear constraints over the decision matrix vars[i][s] and the  *)
(* auxiliary booleans.  The CP-SAT backend is a nondeterministic choice of *)
(* a status and, when it reports a solution, of an assignment satisfying   *)
(* every constraint.  Indices are 1-based here and 0-based in the source.  *)
(***************************************************************************)
EXTENDS Integers, Sequences, FiniteSets, TLC

VARIABLES
    courses,                  \* flat course list: Seq of [code, credits, required]
    catalog,                  \* Option<&Catalog>: [some, geneds]
    prereqs,                  \* list of prerequisite edges <<a, b>>: course a before course b
    num_semesters,            \* sched.courses.len() / ctx.num_semesters
    max_credits_per_semester, \* argument of two_stage_lex_schedule
    sched,                    \* sched.courses: per-semester course-code lists
    sched0,                   \* the course lists the caller passed in
    pc,                       \* position in the function being run
    ctx,                      \* toggles and total-credit floor of the context last built
    model,                    \* the constraint model last built
    response,                 \* the backend's last response: [status, x, b]
    status1,                  \* stage-1 status
    status2,                  \* stage-2 status
    min_credits,              \* stage-1 total
    mean_load,                \* min_credits / num_semesters
    diag_results,             \* statuses of the diagnostic sweep's solves
    result                    \* what two_stage_lex_schedule returned

vars == <<courses, catalog, prereqs, num_semesters, max_credits_per_semester, sched,
          sched0, pc, ctx, model, response, status1, status2, min_credits, mean_load,
          diag_results, result>>

(***************************************************************************)
(* Bounds of the model.                                                    *)
(***************************************************************************)
MaxSem == 2

MaxCap == 4

(***************************************************************************)
(* Generic helpers.                                                        *)
(***************************************************************************)
RECURSIVE SumInts(_)
SumInts(s) == IF Len(s) = 0 THEN 0 ELSE Head(s) + SumInts(Tail(s))

RECURSIVE MaxInts(_, _)
MaxInts(s, dflt) ==
    IF Len(s) = 0 THEN dflt
    ELSE LET r == MaxInts(Tail(s), Head(s))
         IN IF Head(s) >= r THEN Head(s) ELSE r

Abs(n) == IF n < 0 THEN -n ELSE n

Range(s) == {s[j] : j \in 1..Len(s)}

RECURSIVE Concat(_)
Concat(ss) == IF Len(ss) = 0 THEN <<>> ELSE Head(ss) \o Concat(Tail(ss))

RECURSIVE SelectSeqIdx(_, _)
\* the ascending sequence of the members of a finite set of integers
SelectSeqIdx(S, acc) ==
    IF S = {} THEN acc
    ELSE LET m == CHOOSE a \in S : \A c \in S : a <= c
         IN SelectSeqIdx(S \ {m}, Append(acc, m))

Ascending(S) == SelectSeqIdx(S, <<>>)

Count(s, e) == Cardinality({j \in 1..Len(s) : s[j] = e})

(***************************************************************************)
(* cp_sat::builder::LinearExpr: a constant plus a list of terms            *)
(* coefficient * variable; a variable is a decision variable vars[i][s]    *)
(* (kind "x") or an auxiliary boolean number i (kind "b").                 *)
(***************************************************************************)
Const(n) == [k |-> n, ts |-> <<>>]

XVar(i, s) == [k |-> 0, ts |-> << [c |-> 1, kind |-> "x", i |-> i, s |-> s] >>]

BVar(n) == [k |-> 0, ts |-> << [c |-> 1, kind |-> "b", i |-> n, s |-> 0] >>]

Plus(a, b) == [k |-> a.k + b.k, ts |-> a.ts \o b.ts]

Negate(a) == [k |-> 0 - a.k, ts |-> [j \in 1..Len(a.ts) |-> [a.ts[j] EXCEPT !.c = 0 - @]]]

Minus(a, b) == Plus(a, Negate(b))

RECURSIVE SumFrom(_, _)
\* let mut sum = acc; for e in es { sum = sum + e }
SumFrom(acc, es) == IF Len(es) = 0 THEN acc ELSE SumFrom(Plus(acc, Head(es)), Tail(es))

RECURSIVE RepeatAdd(_, _, _)
\* for _ in 0..n { acc = acc + e }
RepeatAdd(acc, e, n) == IF n <= 0 THEN acc ELSE RepeatAdd(Plus(acc, e), e, n - 1)

RECURSIVE RepeatSub(_, _, _)
\* for _ in 0..n { acc = acc - e }
RepeatSub(acc, e, n) == IF n <= 0 THEN acc ELSE RepeatSub(Minus(acc, e), e, n - 1)

Ge(l, r) == [lhs |-> l, op |-> "ge", rhs |-> r]
Le(l, r) == [lhs |-> l, op |-> "le", rhs |-> r]
Eq(l, r) == [lhs |-> l, op |-> "eq", rhs |-> r]

\* model.add_ge / add_le / add_eq
AddCon(m, c) == [m EXCEPT !.cons = Append(@, c)]

RECURSIVE AddCons(_, _)
AddCons(m, cs) == IF Len(cs) = 0 THEN m ELSE AddCons(AddCon(m, Head(cs)), Tail(cs))

\* model.new_bool_var(): the new variable's number is Len(m.bvars) + 1; info records
\* the local list the source pushes it to (role) and the course / set it stands for
NewBool(m, info) == [m EXCEPT !.bvars = Append(@, info)]

TermVal(t, x, b) ==
    IF t.kind = "x" THEN (IF <<t.i, t.s>> \in x THEN t.c ELSE 0)
    ELSE (IF b[t.i] THEN t.c ELSE 0)

Eval(e, x, b) == e.k + SumInts([j \in 1..Len(e.ts) |-> TermVal(e.ts[j], x, b)])

Holds(con, x, b) ==
    LET l == Eval(con.lhs, x, b)
        r == Eval(con.rhs, x, b)
    IN CASE con.op = "ge" -> l >= r
         [] con.op = "le" -> l <= r
         [] OTHER -> l = r

\* the assignment (x, b) satisfies every constraint of the model
Sat(m, x, b) == \A j \in 1..Len(m.cons) : Holds(m.cons[j], x, b)

BoolAssignments(m) == [1..Len(m.bvars) -> BOOLEAN]

\* the decision-matrix assignment x extends to a solution of the model
Feasible(m, x) == \E b \in BoolAssignments(m) : Sat(m, x, b)

(***************************************************************************)
(* Catalog data (crate::geneds, crate::schedule).  A GenEdReq is one       *)
(* record shape for the four variants; unused fields are empty.            *)
(***************************************************************************)
Course(code, credits, required) == [code |-> code, credits |-> credits, required |-> required]

SetReq(codes) == [tag |-> "Set", num |-> 0, codes |-> codes, opts |-> <<>>]
SetOptsReq(opts) == [tag |-> "SetOpts", num |-> 0, codes |-> <<>>, opts |-> opts]
CoursesReq(num, codes) == [tag |-> "Courses", num |-> num, codes |-> codes, opts |-> <<>>]
CreditsReq(num, codes) == [tag |-> "Credits", num |-> num, codes |-> codes, opts |-> <<>>]

Core(req) == [kind |-> "Core", req |-> req]
Foundation(req) == [kind |-> "Foundation", req |-> req]
SkillAndPerspective(req) == [kind |-> "SkillAndPerspective", req |-> req]

NoCatalog == [some |-> FALSE, geneds |-> <<>>]
SomeCatalog(geneds) == [some |-> TRUE, geneds |-> geneds]

(***************************************************************************)
(* add_gened_constraints: the helpers.                                     *)
(***************************************************************************)
HasCode(code) == \E i \in 1..Len(courses) : courses[i].code = code

\* code_to_idx: a HashMap collected in list order, so a repeated code keeps its last index
code_to_idx(code) ==
    CHOOSE i \in 1..Len(courses) :
        /\ courses[i].code = code
        /\ \A j \in 1..Len(courses) : courses[j].code = code => j <= i

\* course_in_schedule(idx): the sum of the course's row of the decision matrix
course_in_schedule(idx) == SumFrom(Const(0), [s \in 1..num_semesters |-> XVar(idx, s)])

\* a variant that keeps the codes that are present and drops only the absent ones
codes_to_indices_dropping_absent(codes) ==
    LET present == SelectSeq(codes, HasCode)
    IN [some |-> TRUE, v |-> [j \in 1..Len(present) |-> code_to_idx(present[j])]]

\* codes_to_indices: Some(indices) when every code is in the course list, else None
codes_to_indices(codes) ==
    IF \A j \in 1..Len(codes) : HasCode(codes[j])
    THEN [some |-> TRUE, v |-> [j \in 1..Len(codes) |-> code_to_idx(codes[j])]]
    ELSE [some |-> FALSE, v |-> <<>>]

SumInSchedule(indices) ==
    SumFrom(Const(0), [j \in 1..Len(indices) |-> course_in_schedule(indices[j])])

SumBools(vs) == SumFrom(Const(0), [j \in 1..Len(vs) |-> BVar(vs[j])])

(***************************************************************************)
(* Core GenEds.                                                            *)
(***************************************************************************)
RECURSIVE CoreSetOptsUpperOnly(_, _, _)
\* a variant that links an option's indicator to its sum from above only
CoreSetOptsUpperOnly(m, opts, option_exprs) ==
    IF Len(opts) = 0
    THEN IF Len(option_exprs) > 0
         THEN AddCon(m, Ge(SumBools(option_exprs), Const(1)))
         ELSE m
    ELSE LET opt == Head(opts)
             oi == codes_to_indices(opt)
         IN IF oi.some
            THEN LET all_present == SumInSchedule(oi.v)
                     opt_var == Len(m.bvars) + 1
                     m1 == NewBool(m, [role |-> "opt", idx |-> 0, g |-> Len(option_exprs) + 1])
                     le_expr == Minus(Const(1), BVar(opt_var))
                     le_scaled == RepeatAdd(Const(0), le_expr, Len(opt))
                     m2 == AddCon(m1, Le(all_present, Plus(Const(Len(opt)), le_scaled)))
                 IN CoreSetOptsUpperOnly(m2, Tail(opts), Append(option_exprs, opt_var))
            ELSE CoreSetOptsUpperOnly(m, Tail(opts), option_exprs)

RECURSIVE CoreSetOpts(_, _, _)
CoreSetOpts(m, opts, option_exprs) ==
    IF Len(opts) = 0
    THEN IF Len(option_exprs) > 0
         THEN AddCon(m, Ge(SumBools(option_exprs), Const(1)))
         ELSE m
    ELSE LET opt == Head(opts)
             oi == codes_to_indices(opt)
         IN IF oi.some
            THEN LET all_present == SumInSchedule(oi.v)
                     opt_var == Len(m.bvars) + 1
                     m1 == NewBool(m, [role |-> "opt", idx |-> 0, g |-> Len(option_exprs) + 1])
                     le_expr == Minus(Const(1), BVar(opt_var))
                     le_scaled == RepeatAdd(Const(0), le_expr, Len(opt))
                     m2 == AddCon(m1, Le(all_present, Plus(Const(Len(opt)), le_scaled)))
                     ge_scaled == RepeatAdd(Const(0), le_expr, Len(opt))
                     m3 == AddCon(m2, Ge(all_present, Minus(Const(Len(opt)), ge_scaled)))
                 IN CoreSetOpts(m3, Tail(opts), Append(option_exprs, opt_var))
            ELSE CoreSetOpts(m, Tail(opts), option_exprs)

RECURSIVE CreditsSum(_, _)
CreditsSum(sum, indices) ==
    IF Len(indices) = 0 THEN sum
    ELSE LET idx == Head(indices)
             credits == courses[idx].credits
             next == IF credits > 0 THEN RepeatAdd(sum, course_in_schedule(idx), credits)
                     ELSE IF credits < 0
                          THEN RepeatSub(sum, course_in_schedule(idx), 0 - credits)
                          ELSE sum
         IN CreditsSum(next, Tail(indices))

CoreGenEd(m, req) ==
    CASE req.tag = "Set" ->
            LET oi == codes_to_indices(req.codes)
            IN IF oi.some
               THEN AddCons(m, [j \in 1..Len(oi.v) |->
                                   Ge(course_in_schedule(oi.v[j]), Const(1))])
               ELSE m
      [] req.tag = "SetOpts" -> CoreSetOpts(m, req.opts, <<>>)
      [] req.tag = "Courses" ->
            LET oi == codes_to_indices(req.codes)
            IN IF oi.some THEN AddCon(m, Ge(SumInSchedule(oi.v), Const(req.num))) ELSE m
      [] OTHER ->
            LET oi == codes_to_indices(req.codes)
            IN IF oi.some
               THEN AddCon(m, Ge(CreditsSum(Const(0), oi.v), Const(req.num)))
               ELSE m

RECURSIVE CoreLoop(_, _)
CoreLoop(m, geneds) ==
    IF Len(geneds) = 0 THEN m
    ELSE CoreLoop(IF Head(geneds).kind = "Core" THEN CoreGenEd(m, Head(geneds).req) ELSE m,
                  Tail(geneds))

(***************************************************************************)
(* Foundation GenEds.                                                      *)
(***************************************************************************)
AllOptIndices(opts) ==
    Concat([j \in 1..Len(opts) |->
               LET oi == codes_to_indices(opts[j]) IN IF oi.some THEN oi.v ELSE <<>>])

RECURSIVE EligibleSets(_, _)
\* the index lists pushed for the GenEds of one kind: a Set, Courses or Credits
\* requirement pushes its list only when every code is present; a SetOpts
\* requirement always pushes the concatenation of its fully present option sets
EligibleSets(geneds, kind) ==
    IF Len(geneds) = 0 THEN <<>>
    ELSE LET g == Head(geneds)
             here == IF g.kind # kind THEN <<>>
                     ELSE IF g.req.tag = "SetOpts" THEN << AllOptIndices(g.req.opts) >>
                     ELSE LET oi == codes_to_indices(g.req.codes)
                          IN IF oi.some THEN << oi.v >> ELSE <<>>
         IN here \o EligibleSets(Tail(geneds), kind)

foundation_sets(geneds) == EligibleSets(geneds, "Foundation")

IsFoundation(g) == g.kind = "Foundation"

RequiredOf(req) ==
    CASE req.tag = "Set" -> Len(req.codes)
      [] req.tag = "SetOpts" -> MaxInts([j \in 1..Len(req.opts) |-> Len(req.opts[j])], 1)
      [] OTHER -> req.num

\* foundation_reqs: the f-th pushed set with the required count of the f-th Foundation
foundation_reqs(geneds) ==
    LET founds == SelectSeq(geneds, IsFoundation)
        sets == foundation_sets(geneds)
    IN [f \in 1..Len(sets) |->
           [set |-> sets[f],
            required |-> IF f <= Len(founds) THEN RequiredOf(founds[f].req) ELSE 1]]

\* the keys of a map from course index to the sets that list it
SetKeys(sets) == UNION {Range(sets[g]) : g \in 1..Len(sets)}

\* course_foundations[idx]: f pushed once per occurrence of idx in set f
course_foundations(freqs, idx) ==
    Concat([f \in 1..Len(freqs) |-> [j \in 1..Count(freqs[f].set, idx) |-> f]])

RECURSIVE AssignVars(_, _, _, _)
AssignVars(m, idx, foundations, assign_vars) ==
    IF Len(foundations) = 0
    THEN LET sum == SumBools(assign_vars)
         IN AddCon(AddCon(m, Le(sum, Const(1))), Eq(sum, course_in_schedule(idx)))
    ELSE LET assign == Len(m.bvars) + 1
             m1 == NewBool(m, [role |-> "assign", idx |-> idx, g |-> Head(foundations)])
             m2 == AddCon(m1, Le(BVar(assign), course_in_schedule(idx)))
         IN AssignVars(m2, idx, Tail(foundations), Append(assign_vars, assign))

RECURSIVE AssignLoop(_, _, _)
\* the HashMap's iteration order is unspecified; it only numbers the variables, and
\* the ascending order is taken here
AssignLoop(m, idxs, freqs) ==
    IF Len(idxs) = 0 THEN m
    ELSE LET idx == Head(idxs)
             foundations == course_foundations(freqs, idx)
         IN AssignLoop(IF courses[idx].required /\ Len(foundations) > 0
                       THEN AssignVars(m, idx, foundations, <<>>)
                       ELSE m,
                       Tail(idxs), freqs)

CoverageLoop(m, freqs) ==
    AddCons(m, [f \in 1..Len(freqs) |->
                   Ge(SumInSchedule(freqs[f].set), Const(freqs[f].required))])

NonRequired(idx) == ~courses[idx].required

RECURSIVE PairLoop(_, _, _, _)
PairLoop(m, freqs, i, j) ==
    IF i > Len(freqs) THEN m
    ELSE IF j > Len(freqs) THEN PairLoop(m, freqs, i + 1, i + 2)
    ELSE LET intersection == Range(freqs[i].set) \cap Range(freqs[j].set)
             counted == SelectSeq(Ascending(intersection), NonRequired)
         IN PairLoop(IF intersection # {}
                     THEN AddCon(m, Le(SumInSchedule(counted), Const(0)))
                     ELSE m,
                     freqs, i, j + 1)

FoundationPart(m, geneds) ==
    LET freqs == foundation_reqs(geneds)
        m1 == AssignLoop(m, Ascending(SetKeys([f \in 1..Len(freqs) |-> freqs[f].set])), freqs)
        m2 == CoverageLoop(m1, freqs)
    IN PairLoop(m2, freqs, 1, 2)

(***************************************************************************)
(* Skills & Perspectives.                                                  *)
(***************************************************************************)
SPLimit == 3

sp_sets(geneds) == EligibleSets(geneds, "SkillAndPerspective")

\* course_sp_counts[idx]: one per occurrence of idx in the S&P lists
course_sp_counts(sets, idx) == SumInts([g \in 1..Len(sets) |-> Count(sets[g], idx)])

RECURSIVE UsedVarsRequired(_, _, _, _, _)
\* a variant that also requires the course to be used for at least one category
UsedVarsRequired(m, idx, sets, g, used_vars) ==
    IF g > Len(sets)
    THEN AddCon(AddCon(m, Le(SumBools(used_vars), Const(SPLimit))),
                Ge(SumBools(used_vars), Const(1)))
    ELSE IF idx \in Range(sets[g])
         THEN LET used == Len(m.bvars) + 1
                  m1 == NewBool(m, [role |-> "used", idx |-> idx, g |-> g])
                  m2 == AddCon(m1, Le(BVar(used), course_in_schedule(idx)))
              IN UsedVarsRequired(m2, idx, sets, g + 1, Append(used_vars, used))
         ELSE UsedVarsRequired(m, idx, sets, g + 1, used_vars)

RECURSIVE UsedVars(_, _, _, _, _)
UsedVars(m, idx, sets, g, used_vars) ==
    IF g > Len(sets)
    THEN AddCon(m, Le(SumBools(used_vars), Const(SPLimit)))
    ELSE IF idx \in Range(sets[g])
         THEN LET used == Len(m.bvars) + 1
                  m1 == NewBool(m, [role |-> "used", idx |-> idx, g |-> g])
                  m2 == AddCon(m1, Le(BVar(used), course_in_schedule(idx)))
              IN UsedVars(m2, idx, sets, g + 1, Append(used_vars, used))
         ELSE UsedVars(m, idx, sets, g + 1, used_vars)

RECURSIVE SPLoop(_, _, _)
SPLoop(m, idxs, sets) ==
    IF Len(idxs) = 0 THEN m
    ELSE SPLoop(IF course_sp_counts(sets, Head(idxs)) > SPLimit
                THEN UsedVars(m, Head(idxs), sets, 1, <<>>)
                ELSE m,
                Tail(idxs), sets)

SPPart(m, geneds) ==
    LET sets == sp_sets(geneds)
    IN SPLoop(m, Ascending(SetKeys(sets)), sets)

(***************************************************************************)
(* add_gened_constraints(ctx): ctx.model with the GenEd constraints added. *)
(***************************************************************************)
\* a variant without the early return: an absent catalog falls back to requiring
\* every required course
add_gened_constraints_fallback(m, cat) ==
    IF ~cat.some
    THEN AddCons(m, [j \in 1..Len(courses) |->
                        Ge(course_in_schedule(j), Const(IF courses[j].required THEN 1 ELSE 0))])
    ELSE SPPart(FoundationPart(CoreLoop(m, cat.geneds), cat.geneds), cat.geneds)

add_gened_constraints(m, cat) ==
    IF ~cat.some THEN m
    ELSE SPPart(FoundationPart(CoreLoop(m, cat.geneds), cat.geneds), cat.geneds)

(***************************************************************************)
(* The variable fabric and the backend.                                    *)
(***************************************************************************)
NoObjective == [kind |-> "none", es |-> <<>>]

EmptyModel == [bvars |-> <<>>, cons |-> <<>>, obj |-> NoObjective]

\* each course's row of the decision matrix sums to at most 1
VariableFabric(m) ==
    AddCons(m, [i \in 1..Len(courses) |-> Le(course_in_schedule(i), Const(1))])

\* the decision matrix as the set of its true entries <<course, semester>>, for
\* the assignment a of each course to a semester or to none (0)
MatrixOf(a) == {<<i, a[i]>> : i \in {j \in DOMAIN a : a[j] # 0}}

\* the decision matrices in which every course is scheduled at most once
Candidates == {MatrixOf(a) : a \in [1..Len(courses) -> 0..num_semesters]}

NoResponse == [status |-> "None", x |-> {}, b |-> <<>>]

Scheduled(x) == {p[1] : p \in x}

(***************************************************************************)
(* Building and solving a GenEd model on its own: the inputs of            *)
(* add_gened_constraints are drawn from the catalogs below.                *)
(***************************************************************************)
GenEdCourseLists ==
    { << Course("X", 3, FALSE), Course("Y", 4, FALSE), Course("Z", 3, TRUE),
         Course("W", 1, FALSE) >>,
      << Course("X", 3, TRUE), Course("Y", 2, FALSE), Course("Z", 3, FALSE),
         Course("W", 0 - 1, FALSE) >> }

\* "Q" is a code no course list holds
GenEdCatalogs ==
    { NoCatalog,
      SomeCatalog(<<>>),
      \* Core requirements, with and without an absent code
      SomeCatalog(<< Core(SetReq(<<"X", "Y">>)) >>),
      SomeCatalog(<< Core(SetReq(<<"X", "Q">>)) >>),
      SomeCatalog(<< Core(CoursesReq(2, <<"X", "Y", "W">>)) >>),
      SomeCatalog(<< Core(CoursesReq(1, <<"Q", "X">>)) >>),
      SomeCatalog(<< Core(CreditsReq(5, <<"X", "Y", "W">>)) >>),
      SomeCatalog(<< Core(CreditsReq(3, <<"X", "Q">>)) >>),
      SomeCatalog(<< Core(SetOptsReq(<< <<"X", "Y">>, <<"W">> >>)) >>),
      SomeCatalog(<< Core(SetOptsReq(<< <<"X", "Q">>, <<"W">> >>)) >>),
      SomeCatalog(<< Core(SetOptsReq(<< <<"Q">> >>)) >>),
      SomeCatalog(<< Core(SetOptsReq(<<>>)) >>),
      SomeCatalog(<< Core(SetOptsReq(<< <<"X", "Y">>, <<"Y", "Z">> >>)) >>),
      SomeCatalog(<< Core(SetOptsReq(<< <<"X", "Y", "Z">>, <<"W", "W">>, <<>> >>)) >>),
      SomeCatalog(<< Core(SetOptsReq(<< <<"X", "Y", "W">> >>)) >>),
      SomeCatalog(<< Core(SetReq(<<"X", "Q">>)),
                     Foundation(CoursesReq(1, <<"Y", "Z">>)),
                     Core(SetOptsReq(<< <<"Q", "W">>, <<"W">> >>)) >>),
      \* Foundations
      SomeCatalog(<< Foundation(CoursesReq(2, <<"X", "Y", "Z">>)),
                     Foundation(CoursesReq(1, <<"Z", "W">>)) >>),
      SomeCatalog(<< Foundation(SetReq(<<"X", "Y">>)),
                     Foundation(CreditsReq(1, <<"W">>)) >>),
      SomeCatalog(<< Foundation(CoursesReq(1, <<"X", "Y">>)),
                     Foundation(CoursesReq(1, <<"Y", "W">>)) >>),
      SomeCatalog(<< Foundation(CoursesReq(1, <<"Q", "X">>)),
                     Foundation(CoursesReq(2, <<"Y", "W">>)) >>),
      SomeCatalog(<< Foundation(SetOptsReq(<< <<"X", "Y">>, <<"X", "W">> >>)) >>),
      \* Skills & Perspectives
      SomeCatalog(<< SkillAndPerspective(SetReq(<<"X">>)),
                     SkillAndPerspective(CoursesReq(1, <<"X", "Y">>)),
                     SkillAndPerspective(CreditsReq(3, <<"X", "Z">>)) >>),
      SomeCatalog(<< SkillAndPerspective(SetReq(<<"X">>)),
                     SkillAndPerspective(CoursesReq(1, <<"X", "Y">>)),
                     SkillAndPerspective(CreditsReq(3, <<"X", "Z">>)),
                     SkillAndPerspective(SetOptsReq(<< <<"X">>, <<"W">> >>)) >>),
      SomeCatalog(<< SkillAndPerspective(SetReq(<<"X">>)),
                     SkillAndPerspective(CoursesReq(1, <<"X", "Y">>)),
                     SkillAndPerspective(CreditsReq(3, <<"X", "Q">>)),
                     SkillAndPerspective(SetOptsReq(<< <<"X">>, <<"W">> >>)) >>),
      SomeCatalog(<< SkillAndPerspective(
                         SetOptsReq(<< <<"X", "Y">>, <<"X", "Z">>, <<"X", "W">>, <<"X">> >>)) >>),
      \* Skills & Perspectives next to a Core and a Foundation requirement
      SomeCatalog(<< SkillAndPerspective(SetReq(<<"X">>)),
                     Core(SetReq(<<"Y">>)),
                     SkillAndPerspective(CoursesReq(2, <<"X", "Y">>)),
                     Foundation(CoursesReq(1, <<"Z", "W">>)),
                     SkillAndPerspective(CreditsReq(9, <<"X", "Z">>)),
                     SkillAndPerspective(SetOptsReq(<< <<"X">>, <<"W">> >>)) >>) }

NoCtx == [prereqs |-> FALSE, geneds |-> FALSE, semlim |-> FALSE,
          min_credits |-> [some |-> FALSE, v |-> 0]]

InitGenEd ==
    /\ courses \in GenEdCourseLists
    /\ catalog \in GenEdCatalogs
    /\ num_semesters \in 0..MaxSem
    /\ prereqs = <<>>
    /\ max_credits_per_semester = 0
    /\ sched = <<>>
    /\ sched0 = <<>>
    /\ pc = "gened"
    /\ ctx = [NoCtx EXCEPT !.geneds = TRUE]
    /\ model = VariableFabric(EmptyModel)
    /\ response = NoResponse
    /\ status1 = "None"
    /\ status2 = "None"
    /\ min_credits = 0
    /\ mean_load = 0
    /\ diag_results = <<>>
    /\ result = "None"

\* add_gened_constraints(&mut ctx)
AddGenedConstraints ==
    /\ pc = "gened"
    /\ model' = add_gened_constraints(model, catalog)
    /\ pc' = "built"
    /\ UNCHANGED <<courses, catalog, prereqs, num_semesters, max_credits_per_semester,
                   sched, sched0, ctx, response, status1, status2, min_credits,
                   mean_load, diag_results, result>>

\* the backend reports an assignment of the decision matrix and the auxiliary
\* booleans that satisfies every constraint
SolveGenEd ==
    /\ pc = "built"
    /\ \E x \in Candidates : \E b \in BoolAssignments(model) :
          /\ Sat(model, x, b)
          /\ response' = [status |-> "Optimal", x |-> x, b |-> b]
    /\ pc' = "solved"
    /\ UNCHANGED <<courses, catalog, prereqs, num_semesters, max_credits_per_semester,
                   sched, sched0, ctx, model, status1, status2, min_credits, mean_load,
                   diag_results, result>>

\* the backend reports that no assignment satisfies the constraints
InfeasibleGenEd ==
    /\ pc = "built"
    /\ \A x \in Candidates : ~Feasible(model, x)
    /\ response' = [status |-> "Infeasible", x |-> {}, b |-> <<>>]
    /\ pc' = "solved"
    /\ UNCHANGED <<courses, catalog, prereqs, num_semesters, max_credits_per_semester,
                   sched, sched0, ctx, model, status1, status2, min_credits, mean_load,
                   diag_results, result>>

NextGenEd == AddGenedConstraints \/ SolveGenEd \/ InfeasibleGenEd

SpecGenEd == InitGenEd /\ [][NextGenEd]_vars

(***************************************************************************)
(* The model-builder context and the constraint groups other than GenEds   *)
(* (model_context, model_semester, model_prereqs: described in the design  *)
(* document, sections 3, 4.1 and 4.2).                                     *)
(***************************************************************************)
\* ModelBuilderContext::new_with_toggles(sched, max, prereqs, geneds, semlim)
new_with_toggles(p, g, l) ==
    [prereqs |-> p, geneds |-> g, semlim |-> l, min_credits |-> [some |-> FALSE, v |-> 0]]

\* ctx.set_min_credits(n): the optional floor on the total scheduled credits
set_min_credits(c, n) == [c EXCEPT !.min_credits = [some |-> TRUE, v |-> n]]

WVar(w, i, s) == [k |-> 0, ts |-> << [c |-> w, kind |-> "x", i |-> i, s |-> s] >>]

\* the credit-weighted sum of one semester's column of the decision matrix
SemesterCreditsExpr(s) ==
    SumFrom(Const(0), [i \in 1..Len(courses) |-> WVar(courses[i].credits, i, s)])

\* ctx.total_credits_expr(&vars, &flat_courses)
total_credits_expr ==
    SumFrom(Const(0), [s \in 1..num_semesters |-> SemesterCreditsExpr(s)])

\* each semester's credit-weighted sum is at most max_credits_per_semester
add_semester_constraints(m) ==
    AddCons(m, [s \in 1..num_semesters |->
                   Le(SemesterCreditsExpr(s), Const(max_credits_per_semester))])

RECURSIVE add_prereq_constraints(_, _)
\* for the edge a before b: b is in semester s only if a is in an earlier semester
add_prereq_constraints(m, edges) ==
    IF Len(edges) = 0 THEN m
    ELSE LET a == Head(edges)[1]
             b == Head(edges)[2]
         IN add_prereq_constraints(
                AddCons(m, [s \in 1..num_semesters |->
                               Le(XVar(b, s),
                                  SumFrom(Const(0), [t \in 1..(s - 1) |-> XVar(a, t)]))]),
                Tail(edges))

\* the floor on the total scheduled credits, when the context has one
add_min_credits(m, c) ==
    IF c.min_credits.some
    THEN AddCon(m, Ge(total_credits_expr, Const(c.min_credits.v)))
    ELSE m

\* build_model_pipeline(&mut ctx): the variable fabric, then each enabled group
build_model_pipeline(c) ==
    LET m0 == VariableFabric(EmptyModel)
        m1 == IF c.semlim THEN add_semester_constraints(m0) ELSE m0
        m2 == IF c.prereqs THEN add_prereq_constraints(m1, prereqs) ELSE m1
        m3 == IF c.geneds THEN add_gened_constraints(m2, catalog) ELSE m2
    IN add_min_credits(m3, c)

(***************************************************************************)
(* The backend: model.solve_with_parameters(&params).  The time limits may *)
(* end any solve with status Unknown.  A model with an objective is        *)
(* answered Optimal with a best assignment or Feasible with any satisfying *)
(* one; a model without an objective is answered Optimal with any          *)
(* satisfying one.  Only the decision matrix of the answer is read.        *)
(***************************************************************************)
ObjValue(m, x) ==
    CASE m.obj.kind = "linear" -> Eval(m.obj.es[1], x, <<>>)
      [] m.obj.kind = "absdev" ->
            SumInts([j \in 1..Len(m.obj.es) |-> Abs(Eval(m.obj.es[j], x, <<>>))])
      [] OTHER -> 0

Status(st) == [status |-> st, x |-> {}, b |-> <<>>]

Solution(st, x) == [status |-> st, x |-> x, b |-> <<>>]

Solve(m) ==
    LET F == {x \in Candidates : Feasible(m, x)}
        vals == {ObjValue(m, x) : x \in F}
        best == CHOOSE v \in vals : \A w \in vals : v <= w
    IN IF F = {} THEN {Status("Infeasible"), Status("Unknown")}
       ELSE {Solution("Optimal", x) : x \in {y \in F : ObjValue(m, y) = best}}
            \cup (IF m.obj.kind # "none" THEN {Solution("Feasible", x) : x \in F} ELSE {})
            \cup {Status("Unknown")}

\* CpSolverStatus::Optimal | CpSolverStatus::Feasible
Solved(st) == st \in {"Optimal", "Feasible"}

(***************************************************************************)
(* two_stage_lex_schedule(sched, max_credits_per_semester)                 *)
(***************************************************************************)
\* line 34: the stage-1 context
Stage1Context == new_with_toggles(TRUE, TRUE, FALSE)

\* a stage-2 context that leaves the semester limit off, as stage 1 does
Stage2ContextNoSemLimit == set_min_credits(new_with_toggles(TRUE, TRUE, FALSE), min_credits)

\* lines 90-91: the stage-2 context
Stage2Context == set_min_credits(new_with_toggles(TRUE, TRUE, TRUE), min_credits)

\* the toggles (prereqs, geneds, semlim) of the diagnostic sweep, in order
DiagToggles ==
    << <<FALSE, TRUE, TRUE>>, <<TRUE, FALSE, TRUE>>, <<TRUE, TRUE, FALSE>>,
       <<TRUE, TRUE, TRUE>> >>

\* max_credits_per_semester * flat_courses.len()
CreditSpan == max_credits_per_semester * Len(courses)

\* per semester an integer variable over [0, CreditSpan] equal to the semester's
\* credit-weighted sum: the sum lies in the variable's domain
AddSemesterCreditVars(m) ==
    AddCons(m, Concat([s \in 1..num_semesters |->
                          << Ge(SemesterCreditsExpr(s), Const(0)),
                             Le(SemesterCreditsExpr(s), Const(CreditSpan)) >>]))

\* per semester diff = credits - mean over [-CreditSpan, CreditSpan] and
\* abs_diff over [0, CreditSpan] with abs_diff >= diff and abs_diff >= -diff; the
\* objective is the sum of the abs_diff, whose least value is the sum of |diff|
AddDeviationVars(m, mean) ==
    LET diffs == [s \in 1..num_semesters |-> Minus(SemesterCreditsExpr(s), Const(mean))]
        m1 == AddCons(m, Concat([s \in 1..num_semesters |->
                                    << Ge(diffs[s], Const(0 - CreditSpan)),
                                       Le(diffs[s], Const(CreditSpan)) >>]))
    IN [m1 EXCEPT !.obj = [kind |-> "absdev", es |-> diffs]]

\* i64 division: the quotient is truncated toward zero (d # 0)
RustDiv(n, d) ==
    IF (n >= 0) = (d > 0) THEN Abs(n) \div Abs(d) ELSE 0 - (Abs(n) \div Abs(d))

\* the credits of every true decision variable, summed
SolutionCredits(x) ==
    SumInts([i \in 1..Len(courses) |->
                SumInts([s \in 1..num_semesters |->
                            IF <<i, s>> \in x THEN courses[i].credits ELSE 0])])

\* result[s]: the codes of the courses placed in semester s, in course-list order
ResultOf(x) ==
    [s \in 1..num_semesters |->
        LET placed == SelectSeq([i \in 1..Len(courses) |-> i], LAMBDA i : <<i, s>> \in x)
        IN [j \in 1..Len(placed) |-> courses[placed[j]].code]]

\* a variant in which the result vector is written to the schedule before the
\* stage-2 status is matched
ScheduleWrittenBeforeMatch == ResultOf(response.x)

\* lines 196-198: the Err arm of stage 2 returns without writing sched.courses
ScheduleOnStage2Error == sched

\* a variant in which the sweep's all-groups solve decides the outcome
Stage1FailureUnlessDiagSolved(diags) ==
    IF diags[Len(diags)] = "Optimal" THEN "Ok"
    ELSE "Err: No feasible solution found in single-stage scheduling"

\* line 85: diag_results is dropped, the error is returned
Stage1Failure(diags) == "Err: No feasible solution found in single-stage scheduling"

TwoStageCourseLists ==
    { << Course("A", 4, TRUE), Course("B", 1, FALSE) >>,
      << Course("A", 3, TRUE), Course("B", 3, TRUE) >>,
      << Course("A", 2, TRUE), Course("B", 0 - 1, FALSE) >> }

TwoStageCatalogs ==
    { NoCatalog,
      SomeCatalog(<< Core(SetReq(<<"A">>)) >>),
      SomeCatalog(<< Core(SetReq(<<"A", "B">>)) >>),
      SomeCatalog(<< Core(SetOptsReq(<< <<"A", "B">>, <<"B">> >>)) >>) }

TwoStagePrereqs == { <<>>, << <<1, 2>> >> }

CreditCaps == 2..MaxCap

\* the caller's schedule: every required course in the first semester
InitialSchedule ==
    [s \in 1..num_semesters |->
        IF s = 1
        THEN LET req == SelectSeq([i \in 1..Len(courses) |-> i],
                                  LAMBDA i : courses[i].required)
             IN [j \in 1..Len(req) |-> courses[req[j]].code]
        ELSE <<>>]

Init ==
    /\ courses \in TwoStageCourseLists
    /\ catalog \in TwoStageCatalogs
    /\ prereqs \in TwoStagePrereqs
    /\ num_semesters \in 0..MaxSem
    /\ max_credits_per_semester \in CreditCaps
    /\ sched = InitialSchedule
    /\ sched0 = sched
    /\ pc = "stage1"
    /\ ctx = NoCtx
    /\ model = EmptyModel
    /\ response = NoResponse
    /\ status1 = "None"
    /\ status2 = "None"
    /\ min_credits = 0
    /\ mean_load = 0
    /\ diag_results = <<>>
    /\ result = "None"

Inputs == <<courses, catalog, prereqs, num_semesters, max_credits_per_semester, sched0>>

\* lines 34-40: the stage-1 context and model, minimizing the total credits
BuildStage1 ==
    /\ pc = "stage1"
    /\ ctx' = Stage1Context
    /\ model' = [build_model_pipeline(Stage1Context) EXCEPT
                     !.obj = [kind |-> "linear", es |-> << total_credits_expr >>]]
    /\ pc' = "solve1"
    /\ UNCHANGED <<Inputs, sched, response, status1, status2, min_credits, mean_load,
                   diag_results, result>>

\* line 41
SolveStage1 ==
    /\ pc = "solve1"
    /\ \E r \in Solve(model) :
          /\ response' = r
          /\ status1' = r.status
    /\ pc' = "match1"
    /\ UNCHANGED <<Inputs, sched, ctx, model, status2, min_credits, mean_load,
                   diag_results, result>>

\* lines 45-55: min_credits from the stage-1 assignment (the response is not read again)
ExtractMinCredits ==
    /\ pc = "match1"
    /\ Solved(status1)
    /\ min_credits' = SolutionCredits(response.x)
    /\ response' = NoResponse
    /\ pc' = "stage2"
    /\ UNCHANGED <<Inputs, sched, ctx, model, status1, status2, mean_load, diag_results,
                   result>>

\* lines 56-58: stage 1 not solved
Stage1Unsolved ==
    /\ pc = "match1"
    /\ ~Solved(status1)
    /\ diag_results' = <<>>
    /\ pc' = "diag1"
    /\ UNCHANGED <<Inputs, sched, ctx, model, response, status1, status2, min_credits,
                   mean_load, result>>

\* lines 59-84: one solve of the sweep after a stage-1 failure
DiagSolve1 ==
    /\ pc = "diag1"
    /\ Len(diag_results) < Len(DiagToggles)
    /\ LET t == DiagToggles[Len(diag_results) + 1]
           ctx_diag == new_with_toggles(t[1], t[2], t[3])
           model_diag == AddSemesterCreditVars(build_model_pipeline(ctx_diag))
       IN \E st \in {r.status : r \in Solve(model_diag)} :
             diag_results' = Append(diag_results, st)
    /\ UNCHANGED <<Inputs, sched, pc, ctx, model, response, status1, status2, min_credits,
                   mean_load, result>>

\* line 85
ReturnErrStage1 ==
    /\ pc = "diag1"
    /\ Len(diag_results) = Len(DiagToggles)
    /\ result' = Stage1Failure(diag_results)
    /\ pc' = "done"
    /\ UNCHANGED <<Inputs, sched, ctx, model, response, status1, status2, min_credits,
                   mean_load, diag_results>>

\* lines 90-92: the stage-2 context and model
BuildStage2 ==
    /\ pc = "stage2"
    /\ ctx' = Stage2Context
    /\ model' = build_model_pipeline(Stage2Context)
    /\ diag_results' = <<>>
    /\ pc' = "diag2"
    /\ UNCHANGED <<Inputs, sched, response, status1, status2, min_credits, mean_load,
                   result>>

\* lines 96-122: one solve of the sweep that precedes the stage-2 solve
DiagSolve2 ==
    /\ pc = "diag2"
    /\ Len(diag_results) < Len(DiagToggles)
    /\ LET t == DiagToggles[Len(diag_results) + 1]
           ctx_diag == set_min_credits(new_with_toggles(t[1], t[2], t[3]), min_credits)
           model_diag == AddSemesterCreditVars(build_model_pipeline(ctx_diag))
       IN \E st \in {r.status : r \in Solve(model_diag)} :
             diag_results' = Append(diag_results, st)
    /\ UNCHANGED <<Inputs, sched, pc, ctx, model, response, status1, status2, min_credits,
                   mean_load, result>>

\* line 124 with no semester: the division by zero panics
MeanLoadPanic ==
    /\ pc = "diag2"
    /\ Len(diag_results) = Len(DiagToggles)
    /\ num_semesters = 0
    /\ pc' = "panicked"
    /\ UNCHANGED <<Inputs, sched, ctx, model, response, status1, status2, min_credits,
                   mean_load, diag_results, result>>

\* lines 124-175: mean_load, the semester and deviation variables, the objective
BuildSpread ==
    /\ pc = "diag2"
    /\ Len(diag_results) = Len(DiagToggles)
    /\ num_semesters # 0
    /\ mean_load' = RustDiv(min_credits, num_semesters)
    /\ model' = AddDeviationVars(AddSemesterCreditVars(model), mean_load')
    /\ pc' = "solve2"
    /\ UNCHANGED <<Inputs, sched, ctx, response, status1, status2, min_credits,
                   diag_results, result>>

\* line 177
SolveStage2 ==
    /\ pc = "solve2"
    /\ \E r \in Solve(model) :
          /\ response' = r
          /\ status2' = r.status
    /\ pc' = "match2"
    /\ UNCHANGED <<Inputs, sched, ctx, model, status1, min_credits, mean_load,
                   diag_results, result>>

\* lines 179-195: the schedule's course lists are overwritten
Commit ==
    /\ pc = "match2"
    /\ Solved(status2)
    /\ sched' = ResultOf(response.x)
    /\ result' = "Ok"
    /\ pc' = "done"
    /\ UNCHANGED <<Inputs, ctx, model, response, status1, status2, min_credits,
                   mean_load, diag_results>>

\* lines 196-198
ReturnErrStage2 ==
    /\ pc = "match2"
    /\ ~Solved(status2)
    /\ sched' = ScheduleOnStage2Error
    /\ result' = "Err: No feasible solution found in two-stage scheduling"
    /\ pc' = "done"
    /\ UNCHANGED <<Inputs, ctx, model, response, status1, status2, min_credits,
                   mean_load, diag_results>>

Next ==
    \/ BuildStage1
    \/ SolveStage1
    \/ ExtractMinCredits
    \/ Stage1Unsolved
    \/ DiagSolve1
    \/ ReturnErrStage1
    \/ BuildStage2
    \/ DiagSolve2
    \/ MeanLoadPanic
    \/ BuildSpread
    \/ SolveStage2
    \/ Commit
    \/ ReturnErrStage2

Spec == Init /\ [][Next]_vars

(***************************************************************************)
(* Properties.                                                             *)
(***************************************************************************)
RECURSIVE SumOver(_, _)
\* the sum of the credits of a set of course indices
SumOver(S, acc) ==
    IF S = {} THEN acc
    ELSE LET i == CHOOSE j \in S : TRUE IN SumOver(S \ {i}, acc + courses[i].credits)

CodeCredits(code) == courses[code_to_idx(code)].credits

SemesterCredits(sem) == SumInts([j \in 1..Len(sem) |-> CodeCredits(sem[j])])

ScheduleCredits(sc) == SumInts([s \in 1..Len(sc) |-> SemesterCredits(sc[s])])

Committed == pc = "done" /\ result = "Ok"

\* C1 (atomic commit): the schedule's course lists differ from the ones the caller
\* passed in only after a return of Ok whose stage-2 status is Optimal or Feasible;
\* on every failure path, during and after every diagnostic solve, and after a
\* panic, they are the caller's.
C1_AtomicCommit ==
    /\ sched # sched0 => (Committed /\ status2 \in {"Optimal", "Feasible"})
    /\ (pc = "done" /\ result # "Ok") => sched = sched0
    /\ pc \in {"diag1", "diag2", "panicked"} => sched = sched0

C1_Witness == Committed /\ sched # sched0 /\ Len(diag_results) = 4

\* C2 (optimality preservation): in every run that commits, the credits of the
\* courses placed in the committed schedule sum to exactly min_credits.
C2_OptimalityPreservation == Committed => ScheduleCredits(sched) = min_credits

\* C3 (credit cap): in every committed schedule the credits of the courses placed
\* in each semester sum to at most max_credits_per_semester.
C3_CreditCap ==
    Committed =>
        \A s \in 1..Len(sched) : SemesterCredits(sched[s]) <= max_credits_per_semester

\* a committed schedule with a semester filled to the cap, for courses that do not
\* all fit in one semester
C3_Witness ==
    /\ Committed
    /\ \E s \in 1..Len(sched) : SemesterCredits(sched[s]) = max_credits_per_semester
    /\ ScheduleCredits(sched) > max_credits_per_semester

GenEdSolved == pc = "solved" /\ response.status = "Optimal" /\ catalog.some

\* the assignment booleans of course idx for Foundation set f are all false
NotAssigned(idx, f) ==
    \A v \in 1..Len(model.bvars) :
        (model.bvars[v].role = "assign" /\ model.bvars[v].idx = idx /\ model.bvars[v].g = f)
            => ~response.b[v]

\* C4 (no double-counting across Foundations): in every assignment satisfying the
\* Foundation constraints, a scheduled required course counts toward the required
\* number only of the Foundation it is assigned to: every other Foundation that
\* lists it reaches its required number with its other scheduled eligible courses.
C4_NoDoubleCounting ==
    GenEdSolved =>
        LET freqs == foundation_reqs(catalog.geneds)
            on == Scheduled(response.x)
        IN \A idx \in on : \A f \in 1..Len(freqs) :
              (courses[idx].required /\ idx \in Range(freqs[f].set) /\ NotAssigned(idx, f))
                  => Cardinality((on \cap Range(freqs[f].set)) \ {idx}) >= freqs[f].required

\* every code a requirement lists
ListedCodes(req) == Range(req.codes) \cup UNION {Range(req.opts[j]) : j \in 1..Len(req.opts)}

\* the eligible set of a requirement: the listed courses that the course list holds
EligibleSet(req) == {code_to_idx(c) : c \in {d \in ListedCodes(req) : HasCode(d)}}

\* the required count of a requirement: the Set's size, the largest option set's
\* size, or the explicit num
RequiredCount(req) ==
    CASE req.tag = "Set" -> Len(req.codes)
      [] req.tag = "SetOpts" ->
            IF Len(req.opts) = 0 THEN 1
            ELSE CHOOSE n \in {Len(req.opts[j]) : j \in 1..Len(req.opts)} :
                    \A j \in 1..Len(req.opts) : Len(req.opts[j]) <= n
      [] OTHER -> req.num

\* C5 (Foundation coverage): for every Foundation of the catalog, the number of
\* distinct scheduled courses of that Foundation's own eligible set is at least
\* that same Foundation's required count.
C5_FoundationCoverage ==
    GenEdSolved =>
        \A j \in 1..Len(catalog.geneds) :
            catalog.geneds[j].kind = "Foundation" =>
                Cardinality(Scheduled(response.x) \cap EligibleSet(catalog.geneds[j].req))
                    >= RequiredCount(catalog.geneds[j].req)

\* the number of Skill & Perspective categories that list the course
SPCategories(idx) ==
    Cardinality({j \in 1..Len(catalog.geneds) :
                    /\ catalog.geneds[j].kind = "SkillAndPerspective"
                    /\ courses[idx].code \in ListedCodes(catalog.geneds[j].req)})

UsedVarsOf(idx) ==
    {v \in 1..Len(model.bvars) : model.bvars[v].role = "used" /\ model.bvars[v].idx = idx}

\* C6 (S&P cap): in every assignment satisfying the model no course has more than 3
\* used-for-category booleans true; for a course eligible for more than 3 categories
\* each is true only if the course is scheduled; a course eligible for 3 or fewer
\* categories gets no S&P boolean and no S&P constraint.
C6_SPCap ==
    GenEdSolved =>
        \A idx \in 1..Len(courses) :
            /\ Cardinality({v \in UsedVarsOf(idx) : response.b[v]}) <= 3
            /\ SPCategories(idx) > 3 =>
                  \A v \in UsedVarsOf(idx) : response.b[v] => idx \in Scheduled(response.x)
            /\ SPCategories(idx) <= 3 => UsedVarsOf(idx) = {}

\* C7 (degraded-mode equivalence): with no catalog, the model built with the geneds
\* toggle on has no auxiliary boolean and exactly the constraints of the model built
\* with the toggle off, so the same decision matrices are feasible.
C7_DegradedMode ==
    (pc \in {"solve1", "diag2"} /\ ~catalog.some /\ ctx.geneds) =>
        LET off == build_model_pipeline([ctx EXCEPT !.geneds = FALSE])
        IN /\ model.bvars = <<>>
           /\ model.cons = off.cons
           /\ \A x \in Candidates : Feasible(model, x) <=> Sat(off, x, <<>>)

\* a model built with no catalog whose other constraint groups exclude a matrix
C7_Witness ==
    /\ pc = "solve1"
    /\ ~catalog.some
    /\ ctx.geneds
    /\ Len(model.cons) > Len(courses)
    /\ \E x \in Candidates : ~Feasible(model, x)

AllPresent(codes) == \A j \in 1..Len(codes) : HasCode(codes[j])

PresentIdx(codes) == {code_to_idx(c) : c \in {d \in Range(codes) : HasCode(d)}}

\* a requirement as enforced over the listed codes that are present
EnforcedOverPresent(req, on) ==
    CASE req.tag = "Set" -> PresentIdx(req.codes) \subseteq on
      [] req.tag = "SetOpts" ->
            \E j \in 1..Len(req.opts) : PresentIdx(req.opts[j]) \subseteq on
      [] req.tag = "Courses" -> Cardinality(PresentIdx(req.codes) \cap on) >= req.num
      [] OTHER -> SumOver(PresentIdx(req.codes) \cap on, 0) >= req.num

\* C8, as stated (dropped requirement data): a Core requirement that lists an absent
\* code is still enforced over its remaining listed codes that are present.
C8_OnlyAbsentCodeDropped ==
    GenEdSolved =>
        \A j \in 1..Len(catalog.geneds) :
            catalog.geneds[j].kind = "Core" =>
                EnforcedOverPresent(catalog.geneds[j].req, Scheduled(response.x))

KeepsRequirement(g) ==
    g.kind # "Core" \/ g.req.tag = "SetOpts" \/ AllPresent(g.req.codes)

\* the catalog without the Core Set, Courses and Credits requirements that list an
\* absent code and without the option sets of Core SetOpts that list one
WithoutDropped(geneds) ==
    LET kept == SelectSeq(geneds, KeepsRequirement)
    IN [j \in 1..Len(kept) |->
           IF kept[j].kind = "Core" /\ kept[j].req.tag = "SetOpts"
           THEN [kept[j] EXCEPT !.req.opts = SelectSeq(@, AllPresent)]
           ELSE kept[j]]

\* C8, amended: a Core Set, Courses or Credits requirement that lists an absent code
\* is skipped whole, and an option set of a Core SetOpts that lists one is skipped
\* whole: the model built is the model of the catalog without them, and the other
\* requirements and option sets are enforced as they are.
C8_WholeRequirementSkipped ==
    (pc = "built" /\ catalog.some) =>
        model = add_gened_constraints(VariableFabric(EmptyModel),
                                      SomeCatalog(WithoutDropped(catalog.geneds)))

\* a catalog with a dropped requirement or option set and another one still enforced
C8_Witness ==
    /\ pc = "built"
    /\ catalog.some
    /\ WithoutDropped(catalog.geneds) # catalog.geneds
    /\ Len(model.cons) > Len(courses)

\* C9 (outcome by statuses): the returned result and the schedule are a function of
\* the stage-1 and stage-2 statuses (and the stage-2 assignment): Ok iff both are
\* Optimal or Feasible, the single-stage error iff stage 1 is not, the two-stage
\* error iff stage 1 is and stage 2 is not, whatever the diagnostic solves returned.
C9_OutcomeByStatuses ==
    pc = "done" =>
        LET ok1 == status1 \in {"Optimal", "Feasible"}
            ok2 == status2 \in {"Optimal", "Feasible"}
        IN /\ result = (IF ~ok1
                        THEN "Err: No feasible solution found in single-stage scheduling"
                        ELSE IF ~ok2
                        THEN "Err: No feasible solution found in two-stage scheduling"
                        ELSE "Ok")
           /\ sched = (IF ok1 /\ ok2 THEN ResultOf(response.x) ELSE sched0)
           /\ ~ok1 => status2 = "None"

\* stage 1 ran out of budget on a model that the sweep's all-groups solve then solved
C9_Witness ==
    /\ pc = "done"
    /\ status1 = "Unknown"
    /\ Len(diag_results) = 4
    /\ diag_results[4] = "Optimal"
    /\ result # "Ok"

\* C10 (stage-1 configuration): the model solved in stage 1 is the one built with the
\* prerequisite, GenEd and semester-credit-limit groups enabled and no floor on the
\* total credits, minimizing the credit-weighted sum over all decision variables.
C10_Stage1AllGroups ==
    pc = "solve1" =>
        /\ model.cons = build_model_pipeline(new_with_toggles(TRUE, TRUE, TRUE)).cons
        /\ ~ctx.min_credits.some
        /\ model.obj = [kind |-> "linear", es |-> << total_credits_expr >>]

\* C11 (stage-2 feasibility): whenever stage 1 was solved, the stage-2 model (all
\* three groups, the floor at min_credits, the semester and deviation variables) has
\* a satisfying assignment, and the stage-2 solve never reports Infeasible.
C11_Stage2Feasible ==
    /\ (pc = "solve2" /\ Solved(status1)) => \E x \in Candidates : Feasible(model, x)
    /\ status2 # "Infeasible"

\* the catalog is one Core SetOpts requirement whose option sets all have their
\* codes in the course list
OneCoreSetOpts ==
    /\ catalog.some
    /\ Len(catalog.geneds) = 1
    /\ catalog.geneds[1].kind = "Core"
    /\ catalog.geneds[1].req.tag = "SetOpts"
    /\ \A j \in 1..Len(catalog.geneds[1].req.opts) : AllPresent(catalog.geneds[1].req.opts[j])

\* option set j has every one of its courses scheduled
OptionScheduled(j, x) == PresentIdx(catalog.geneds[1].req.opts[j]) \subseteq Scheduled(x)

\* the two constraints that link the indicator of option set j to its sum: they
\* follow the variable fabric's one constraint per course
OptionLinks(j) == {model.cons[Len(courses) + 2 * j - 1], model.cons[Len(courses) + 2 * j]}

\* an indicator is true only with all its courses scheduled; a false indicator
\* leaves the option's two constraints true on every decision matrix
IndicatorLinked ==
    LET opts == catalog.geneds[1].req.opts
    IN /\ Len(model.bvars) = Len(opts)
       /\ \A x \in Candidates : \A b \in BoolAssignments(model) : \A j \in 1..Len(opts) :
             /\ (Sat(model, x, b) /\ b[j]) => OptionScheduled(j, x)
             /\ ~b[j] => \A con \in OptionLinks(j) : Holds(con, x, b)

\* C12, as stated (Core SetOpts linearization): a decision matrix extends to a
\* solution of the emitted constraints iff at least one option set has every one of
\* its courses scheduled.
C12_SetOptsIffSomeOption ==
    (pc = "built" /\ OneCoreSetOpts) =>
        /\ \A x \in Candidates :
              Feasible(model, x) <=>
                  \E j \in 1..Len(catalog.geneds[1].req.opts) : OptionScheduled(j, x)
        /\ IndicatorLinked

\* C12, amended: a requirement with at least one option set is satisfiable by a
\* decision matrix iff some option set has every one of its courses scheduled; a
\* requirement with no option set emits no constraint and every matrix satisfies it.
C12_SetOptsLinearization ==
    (pc = "built" /\ OneCoreSetOpts) =>
        /\ \A x \in Candidates :
              Feasible(model, x) <=>
                  \/ Len(catalog.geneds[1].req.opts) = 0
                  \/ \E j \in 1..Len(catalog.geneds[1].req.opts) : OptionScheduled(j, x)
        /\ Len(catalog.geneds[1].req.opts) = 0 => model = VariableFabric(EmptyModel)
        /\ IndicatorLinked

\* a solution with one indicator true and another false whose option set is partly
\* scheduled
C12_Witness ==
    /\ OneCoreSetOpts
    /\ pc = "solved"
    /\ response.status = "Optimal"
    /\ \E j, k \in 1..Len(catalog.geneds[1].req.opts) :
          /\ response.b[j]
          /\ ~response.b[k]
          /\ PresentIdx(catalog.geneds[1].req.opts[k]) \cap Scheduled(response.x) # {}
          /\ ~OptionScheduled(k, response.x)

\* stage 1 was solved and the function has gone past the computation of mean_load
PastMeanLoad == pc \in {"solve2", "match2"} \/ (pc = "done" /\ Solved(status1))

\* C13 (mean load): on every input on which stage 1 is solved, mean_load is defined
\* (the computation does not panic) and equals the floor of min_credits divided by
\* the number of semesters.
C13_MeanLoadFloor ==
    /\ pc # "panicked"
    /\ PastMeanLoad => (num_semesters > 0 /\ mean_load = min_credits \div num_semesters)

NotSP(g) == g.kind # "SkillAndPerspective"

\* the model of the same catalog without its Skill & Perspective requirements
WithoutSP ==
    add_gened_constraints(VariableFabric(EmptyModel),
                          SomeCatalog(SelectSeq(catalog.geneds, NotSP)))

\* an assignment of the first booleans of the model, with every further one false
ExtendFalse(b) == [v \in 1..Len(model.bvars) |-> IF v <= Len(b) THEN b[v] ELSE FALSE]

\* C14 (S&P removes nothing): the Skill & Perspective part only appends booleans
\* and constraints; every assignment that satisfies the other constraints satisfies
\* the whole model once every used-for-category boolean is false, so the same
\* decision matrices are feasible with and without the S&P requirements.
C14_SPRemovesNothing ==
    (pc = "built" /\ catalog.some) =>
        LET m0 == WithoutSP
        IN /\ SubSeq(model.cons, 1, Len(m0.cons)) = m0.cons
           /\ SubSeq(model.bvars, 1, Len(m0.bvars)) = m0.bvars
           /\ \A v \in (Len(m0.bvars) + 1)..Len(model.bvars) : model.bvars[v].role = "used"
           /\ \A x \in Candidates :
                 /\ \A b \in BoolAssignments(m0) :
                       Sat(m0, x, b) => Sat(model, x, ExtendFalse(b))
                 /\ Feasible(model, x) <=> Feasible(m0, x)

\* a solved model with Core, Foundation and S&P requirements in which a course that
\* has used-for-category booleans is not scheduled
C14_Witness ==
    /\ GenEdSolved
    /\ Len(WithoutSP.cons) > Len(courses)
    /\ Len(model.cons) > Len(WithoutSP.cons)
    /\ \E idx \in 1..Len(courses) :
          /\ UsedVarsOf(idx) # {}
          /\ idx \notin Scheduled(response.x)

====
